---- MODULE Spec2Model ----
\* Model of DaikinCloudProxy (src/lib/proxy.js): the login proxy's lifecycle
\* (startServer / stopServer), the single-shot result promise
\* (waitForTokenResponse) and the token retrieval run by the response-end hook.
\* One action is one run-to-completion turn of the Node event loop: an API call
\* or one callback of the proxy engine, the web server or the OIDC client.
\* Spec has a caller that awaits each lifecycle promise, SpecConcurrent one that
\* does not, and SpecAdapter follows the hooks and sockets of single connections
\* of a started session.
EXTENDS Integers, Sequences, FiniteSets, Bags, TLC

\* ------------------------------------------------------------------ bounds
MaxCalls == 5       \* calls of startServer(), stopServer(), waitForTokenResponse()
                    \* and oauthCallback() in a run
MaxConns == 1       \* connections whose hooks and sockets are followed one by one

\* ------------------------------------------------------------------ values
\* A query parameter that is not in the URL (JavaScript undefined).
Absent == "<absent>"

\* JavaScript truthiness of a string-or-undefined value.
Truthy(v) == v # Absent /\ v # ""

\* JavaScript string conversion in a '+' concatenation.
ToStr(v) == IF v = Absent THEN "undefined" ELSE v

\* generators.state() / generators.codeVerifier(): fresh random values; the
\* n-th generated URL gets the n-th name.
StateNames == <<"s1", "s2", "s3">>
VerifierNames == <<"v1", "v2", "v3">>

\* generators.codeChallenge(): the S256 transform of the verifier.
codeChallenge(v) == "S256(" \o v \o ")"

\* Values a promise is settled with.
NoValue == [kind |-> "none", msg |-> ""]
UndefinedValue == [kind |-> "undefined", msg |-> ""]
TrueValue == [kind |-> "true", msg |-> ""]
Error(m) == [kind |-> "error", msg |-> m]

\* What the provider answers to oauthCallback(code, code_verifier): the token
\* set issued for that code and verifier.
TokenSet(code, verifier) ==
    [kind |-> "tokenSet", msg |-> "tokens(" \o ToStr(code) \o "," \o ToStr(verifier) \o ")"]

ErrAlreadyStarted == Error("Proxy Server already started. Please stop before starting again.")
ErrJustStarted == Error("Proxy Server just started. Discard old process.")
ErrStopped == Error("Proxy Server stopped.")
ErrUnknownState(s) ==
    Error("Can not decode response for State " \o ToStr(s) \o ". Please reload start page and try again!")
\* Variant: the message without the description.
ErrAuthorization_noDescription(e, d) == Error(ToStr(e))
ErrAuthorization(e, d) == Error(ToStr(e) \o ": " \o ToStr(d))
\* Failures raised outside this file: listen() on a used port, the OIDC client.
ErrBind == Error("listen EADDRINUSE")
ErrOidc == Error("OPError")

\* ------------------------------------------------------------------ state
VARIABLES
    openIdStore,    \* this.openIdStore: state -> [code_verifier]
    proxyServer,    \* this.proxyServer: 0 is null, else a server id
    staticServer,   \* this.staticServer: -1 is undefined, 0 is null, else a server id
    resultPromise,  \* this.resultPromise: 0 is null, else an index of promises
    promises,       \* state of each promise made by waitForTokenResponse()
    settled,        \* the resolve()/reject() call the last turn made on such a promise
    servers,        \* the listeners created so far: [role, status]
    pending,        \* callbacks registered with listen()/close() and not yet run
    startTasks,     \* one entry per startServer() call
    stopTasks,      \* one entry per stopServer() call: its promise, the number of
                    \* startServer() calls made before it, the promise it rejected
    exch,           \* bag of the oauthCallback() invocations awaiting their answer
    exchanges,      \* number of oauthCallback() invocations made so far
    startLink,      \* the login URL written into certs/index.html
    crashed,        \* a callback threw: uncaught exception
    conns,          \* bag of the proxied connections whose hooks and sockets are followed
    errorLog        \* the lines the onError handler gave the logger in the last turn

vars == <<openIdStore, proxyServer, staticServer, resultPromise, promises, settled, servers,
          pending, startTasks, stopTasks, exch, exchanges, startLink, crashed, conns, errorLog>>

\* The fields of the object and what hangs on them, without the per-turn records.
sessionVars == <<openIdStore, proxyServer, staticServer, resultPromise, promises, servers,
                 pending, startTasks, stopTasks, exch, exchanges, startLink, crashed>>

NoLog == << >>

NoSettlement == [p |-> 0, st |-> "none", val |-> NoValue]
NoLink == [state |-> Absent, code_challenge |-> Absent, code_challenge_method |-> Absent]

Init ==
    /\ openIdStore = [k \in {} |-> [code_verifier |-> Absent]]
    /\ proxyServer = 0
    /\ staticServer = -1
    /\ resultPromise = 0
    /\ promises = << >>
    /\ settled = NoSettlement
    /\ servers = << >>
    /\ pending = {}
    /\ startTasks = << >>
    /\ stopTasks = << >>
    /\ exch = EmptyBag
    /\ exchanges = 0
    /\ startLink = NoLink
    /\ crashed = FALSE
    /\ conns = EmptyBag
    /\ errorLog = NoLog

\* The calls made so far.
calls == Len(startTasks) + Len(stopTasks) + Len(promises) + exchanges

\* ------------------------------------------------------------------ promises
\* resolve()/reject() of the promise of a startServer/stopServer call: only a
\* pending promise changes.
Settle(ps, p, st, val) ==
    IF ps[p].st = "pending" THEN [ps EXCEPT ![p] = [@ EXCEPT !.st = st, !.val = val]] ELSE ps

\* this.resultPromise.resolve(val) / .reject(val) when the slot rp is set: the
\* promise leaves "pending", and the call is what the waiting caller is given.
settlePromises(ps, rp, st) ==
    IF rp # 0 /\ ps[rp] = "pending" THEN [ps EXCEPT ![rp] = st] ELSE ps
settlement(ps, rp, st, val) ==
    IF rp # 0 /\ ps[rp] = "pending" THEN [p |-> rp, st |-> st, val |-> val] ELSE NoSettlement

\* ------------------------------------------------------------------ waitForTokenResponse
waitForTokenResponse ==
    /\ ~crashed
    /\ UNCHANGED conns /\ errorLog' = NoLog
    /\ calls < MaxCalls
    /\ promises' = Append(promises, "pending")
    /\ resultPromise' = Len(promises) + 1
    /\ settled' = NoSettlement
    /\ UNCHANGED <<openIdStore, proxyServer, staticServer, servers, pending,
                   startTasks, stopTasks, exch, exchanges, startLink, crashed>>

\* ------------------------------------------------------------------ the login redirect
\* Variant: the hook is registered whenever the request has a Host header.
hostIncludesDaikin_anyHost(h) == h # Absent

\* headers.host.includes('daikin'), of the hosts a client asks the proxy for.
hostIncludesDaikin(h) == h \in {"cdc.daikin.eu"}

\* Property names every JavaScript object inherits from Object.prototype:
\* openIdStore is created as {} and read with openIdStore[params.state].
PrototypeKeys == {"constructor"}

\* Values of the query parameters of a redirect.
StateParams == {StateNames[i] : i \in 1..Len(StateNames)} \cup {"forged"} \cup PrototypeKeys
CodeParams == {Absent, "c1"}
ErrorParams == {Absent, "access_denied"}
DescriptionParams == {Absent, "user cancelled"}
Params ==
    {q \in [state : StateParams, code : CodeParams, error : ErrorParams,
            error_description : DescriptionParams] :
        q.error_description # Absent => (q.error # Absent /\ q.code = Absent)}

\* Location headers: none, an ordinary redirect, the terminal redirect.
Locations ==
    {[scheme |-> Absent, params |-> q] : q \in {[state |-> Absent, code |-> Absent,
                                                  error |-> Absent, error_description |-> Absent]}}
    \cup {[scheme |-> "https://", params |-> q] : q \in {[state |-> "s1", code |-> "c1",
                                                  error |-> Absent, error_description |-> Absent]}}
    \cup {[scheme |-> "daikinunified://", params |-> q] : q \in Params}

\* The proxied exchanges: every location behind the vendor host, and the terminal
\* redirect behind another host.
Requests ==
    {[host |-> "cdc.daikin.eu", loc |-> l] : l \in Locations}
    \cup {[host |-> "example.org", loc |-> l] :
            l \in {k \in Locations : k.scheme = "daikinunified://" /\ k.params.state = "s1"
                                      /\ k.params.code = "c1" /\ k.params.error = Absent}}

\* headers.location && headers.location.startsWith('daikinunified://')
isTerminalRedirect(loc) == loc.scheme = "daikinunified://"

\* openIdClient.callbackParams(callbackUrl): the query parameters of the URL.
callbackParams(loc) == loc.params

\* The key a value is stored or looked up under: property keys are strings.
storeKey(s) == ToStr(s)

\* Variant: one current verifier, that of the newest entry, for every known state.
storeLookup_latest(store, key) ==
    IF key \in DOMAIN store
        THEN [found |-> TRUE, code_verifier |-> VerifierNames[Cardinality(DOMAIN store)]]
    ELSE IF key \in PrototypeKeys THEN [found |-> TRUE, code_verifier |-> Absent]
    ELSE [found |-> FALSE, code_verifier |-> Absent]

\* this.openIdStore[key]: an own entry, else what the prototype provides, else undefined.
storeLookup(store, key) ==
    IF key \in DOMAIN store THEN [found |-> TRUE, code_verifier |-> store[key].code_verifier]
    ELSE IF key \in PrototypeKeys THEN [found |-> TRUE, code_verifier |-> Absent]
    ELSE [found |-> FALSE, code_verifier |-> Absent]

\* Variant: a redirect with neither code nor error is an error.
retrieveTokens_throwUnrecognized(store, params) ==
    LET entry == storeLookup(store, storeKey(params.state)) IN
    IF ~entry.found THEN [kind |-> "throw", val |-> ErrUnknownState(params.state),
                          code_verifier |-> Absent]
    ELSE IF Truthy(params.code)
        THEN [kind |-> "await", val |-> NoValue, code_verifier |-> entry.code_verifier]
    ELSE IF Truthy(params.error)
        THEN [kind |-> "throw", val |-> ErrAuthorization(params.error, params.error_description),
              code_verifier |-> Absent]
    ELSE [kind |-> "throw", val |-> Error("unrecognized callback"), code_verifier |-> Absent]

\* _retrieveTokens up to its first suspension: it throws, returns undefined, or
\* calls oauthCallback with the stored verifier and waits for the answer.
retrieveTokens(store, params) ==
    LET entry == storeLookup(store, storeKey(params.state)) IN
    IF ~entry.found THEN [kind |-> "throw", val |-> ErrUnknownState(params.state),
                          code_verifier |-> Absent]
    ELSE IF Truthy(params.code)
        THEN [kind |-> "await", val |-> NoValue, code_verifier |-> entry.code_verifier]
    ELSE IF Truthy(params.error)
        THEN [kind |-> "throw", val |-> ErrAuthorization(params.error, params.error_description),
              code_verifier |-> Absent]
    ELSE [kind |-> "return", val |-> UndefinedValue, code_verifier |-> Absent]

\* Variant: the hook settles the promise and leaves it in the slot.
deliverSlot_kept(rp) == rp

\* The tail of the response-end hook: hand the outcome to this.resultPromise if
\* there is one, and clear the slot.
deliverStatus(kind) == IF kind = "return" THEN "resolved" ELSE "rejected"
deliverPromises(ps, rp, kind) == settlePromises(ps, rp, deliverStatus(kind))
deliverSettlement(ps, rp, kind, val) == settlement(ps, rp, deliverStatus(kind), val)
deliverSlot(rp) == 0

\* Some proxy listener of this object still serves connections.
proxyServing == \E i \in 1..Len(servers) :
    servers[i].role = "proxy" /\ servers[i].status \in {"listening", "closing"}

\* onRequest + onResponseEnd for one proxied exchange whose response has ended.
onResponseEnd(host, loc) ==
    /\ ~crashed
    /\ proxyServing
    /\ IF hostIncludesDaikin(host) /\ isTerminalRedirect(loc)
       THEN LET r == retrieveTokens(openIdStore, callbackParams(loc)) IN
            IF r.kind = "await"
            THEN /\ calls < MaxCalls
                 /\ exchanges' = exchanges + 1
                 /\ exch' = exch (+) SetToBag({[state |-> callbackParams(loc).state,
                                                code |-> callbackParams(loc).code,
                                                code_verifier |-> r.code_verifier,
                                                startedUnder |-> resultPromise]})
                 /\ settled' = NoSettlement
                 /\ UNCHANGED <<promises, resultPromise>>
            ELSE /\ promises' = deliverPromises(promises, resultPromise, r.kind)
                 /\ settled' = deliverSettlement(promises, resultPromise, r.kind, r.val)
                 /\ resultPromise' = deliverSlot(resultPromise)
                 /\ UNCHANGED <<exch, exchanges>>
       ELSE /\ settled' = NoSettlement
            /\ UNCHANGED <<promises, resultPromise, exch, exchanges>>
    /\ UNCHANGED <<openIdStore, proxyServer, staticServer, servers, pending,
                   startTasks, stopTasks, startLink, crashed>>

\* openIdClient.oauthCallback answers invocation x: a validated token set, or a
\* failure; the hook resumes and hands the outcome to this.resultPromise.
oauthCallbackDone(x, ok) ==
    /\ ~crashed
    /\ BagIn(x, exch)
    /\ LET kind == IF ok THEN "return" ELSE "throw"
           val == IF ok THEN TokenSet(x.code, x.code_verifier) ELSE ErrOidc
       IN /\ promises' = deliverPromises(promises, resultPromise, kind)
          /\ settled' = deliverSettlement(promises, resultPromise, kind, val)
          /\ resultPromise' = deliverSlot(resultPromise)
          /\ exch' = exch (-) SetToBag({x})
    /\ UNCHANGED <<exchanges, openIdStore, proxyServer, staticServer, servers, pending,
                   startTasks, stopTasks, startLink, crashed>>

\* The response-end hooks that have not reached their 'return callback()': the
\* hook calls it after the await, so one is withheld per exchange in flight, and
\* the engine ends the response to the client only when it is called.
withheldResponses == BagCardinality(exch)

\* ------------------------------------------------------------------ the onError handler
\* An error the proxy engine reports: err.code, String(err) and err.stack.
AdapterError(code) ==
    [code |-> code, text |-> "Error: proxy failure", stack |-> "Error: proxy failure at proxy.js"]
ErrorCodes == {"ECONNRESET", "ERR_SSL_UNSUPPORTED_PROTOCOL", "ETIMEDOUT"}

\* The context of an error: that of a connection, or none.
NoCtx == [clientToProxyRequest |-> FALSE, url |-> Absent]
Ctx(c) == [clientToProxyRequest |-> TRUE, url |-> c.url]

\* (ctx && ctx.clientToProxyRequest) ? ctx.clientToProxyRequest.url : ''
errorUrl(ctx) == IF ctx.clientToProxyRequest THEN ctx.url ELSE ""

\* Variant: no error is ignored.
ignoredError_none(err) == FALSE

\* err.code === 'ECONNRESET' || err.code === 'ERR_SSL_UNSUPPORTED_PROTOCOL'
ignoredError(err) == err.code = "ECONNRESET" \/ err.code = "ERR_SSL_UNSUPPORTED_PROTOCOL"

\* The two logger calls of the handler.
errorLines(url, err) ==
    <<"Daikin-Cloud: SSL-Proxy ERROR for " \o url \o " : " \o err.text,
      ToStr(err.code) \o ": " \o err.stack>>

\* What the handler gives the logger for one error.
onErrorLog(ctx, err) == IF ignoredError(err) THEN NoLog ELSE errorLines(errorUrl(ctx), err)

\* The engine reports an error of a connection, or one without context.
onError(ctx, err) ==
    /\ ~crashed
    /\ proxyServing
    /\ errorLog' = onErrorLog(ctx, err)
    /\ settled' = NoSettlement
    /\ UNCHANGED sessionVars
    /\ UNCHANGED conns

\* ------------------------------------------------------------------ one proxied connection
\* The requests a client sends through the proxy: the Host header and the URL.
ClientRequests ==
    {[host |-> "cdc.daikin.eu", url |-> "/v1/login"],
     [host |-> "example.org", url |-> "/index.html"],
     [host |-> Absent, url |-> "/probe"]}

\* The Location headers followed per connection.
ConnLocations ==
    {l \in Locations :
        l.scheme = "daikinunified://"
            => /\ l.params.state \in {"s1", "forged"}
               /\ (l.params.code = Absent) # (l.params.error = Absent)
               /\ l.params.error # Absent => l.params.error_description # Absent}

NoResponse == [scheme |-> "<no response yet>",
               params |-> [state |-> Absent, code |-> Absent, error |-> Absent,
                           error_description |-> Absent]]
NoExchange == [state |-> Absent, code |-> Absent, code_verifier |-> Absent, startedUnder |-> 0]

\* Variant: the onResponse handler is registered for vendor hosts only.
registersOnResponse_vendorOnly(host) == hostIncludesDaikin(host)

\* ctx.onResponse(...) is the first statement of the request hook, for every host.
registersOnResponse(host) == TRUE

\* The request hook: register the onResponse handler, register the response-end
\* hook for a vendor host, and call callback(): the request goes to the origin.
Conn(req) ==
    [host |-> req.host, url |-> req.url,
     onResponse |-> registersOnResponse(req.host),
     onResponseEnd |-> hostIncludesDaikin(req.host),
     phase |-> "toServer", loc |-> NoResponse, closeRule |-> FALSE,
     upstream |-> "open", client |-> "open", awaits |-> NoExchange]

replaceConn(c, d) == (conns (-) SetToBag({c})) (+) SetToBag({d})

onRequest(req) ==
    /\ ~crashed
    /\ proxyServing
    /\ BagCardinality(conns) < MaxConns
    /\ conns' = conns (+) SetToBag({Conn(req)})
    /\ settled' = NoSettlement
    /\ errorLog' = NoLog
    /\ UNCHANGED sessionVars

\* The response headers arrive: the onResponse handler, if registered, puts a
\* 'close' listener on the upstream socket that destroys the client socket.
onResponse(c, loc) ==
    /\ ~crashed
    /\ BagIn(c, conns) /\ c.phase = "toServer" /\ c.upstream = "open"
    /\ conns' = replaceConn(c, [c EXCEPT !.phase = "response", !.loc = loc,
                                         !.closeRule = c.onResponse])
    /\ settled' = NoSettlement
    /\ errorLog' = NoLog
    /\ UNCHANGED sessionVars

\* The exchange the response-end hook of connection c starts, if it starts one.
hookAwaits(c) ==
    LET r == retrieveTokens(openIdStore, callbackParams(c.loc)) IN
    IF c.onResponseEnd /\ isTerminalRedirect(c.loc) /\ r.kind = "await"
        THEN [state |-> callbackParams(c.loc).state, code |-> callbackParams(c.loc).code,
              code_verifier |-> r.code_verifier, startedUnder |-> resultPromise]
    ELSE NoExchange

\* The response has ended: the response-end hook runs if it was registered; the
\* response is released unless the hook waits for an exchange.
connResponseEnd(c) ==
    /\ BagIn(c, conns) /\ c.phase = "response" /\ c.upstream = "open"
    /\ onResponseEnd(c.host, c.loc)
    /\ conns' = replaceConn(c, [c EXCEPT !.phase = IF hookAwaits(c) = NoExchange THEN "ended"
                                                   ELSE "await",
                                         !.awaits = hookAwaits(c)])
    /\ errorLog' = NoLog

\* The exchange of connection c is answered: the hook resumes, delivers and
\* calls its callback.
connExchangeDone(c, ok) ==
    /\ BagIn(c, conns) /\ c.phase = "await"
    /\ oauthCallbackDone(c.awaits, ok)
    /\ conns' = replaceConn(c, [c EXCEPT !.phase = "ended", !.awaits = NoExchange])
    /\ errorLog' = NoLog

\* The upstream socket emits 'close': the listener, if there is one, destroys
\* the client socket.
upstreamClosed(c) ==
    /\ ~crashed
    /\ BagIn(c, conns) /\ c.upstream = "open"
    /\ conns' = replaceConn(c, [c EXCEPT !.upstream = "closed",
                                         !.client = IF c.closeRule THEN "destroyed" ELSE @])
    /\ settled' = NoSettlement
    /\ errorLog' = NoLog
    /\ UNCHANGED sessionVars

\* ------------------------------------------------------------------ listeners
\* A callback handed to listen() or close(): its kind, the startServer/stopServer
\* call whose closure it is, and the listener it was registered on.
Callback(kind, task, srv) == [kind |-> kind, task |-> task, srv |-> srv]

\* server.close(): a listener stops accepting; a listener that is still binding
\* never reports 'listening' afterwards.
closeServer(ss, i) ==
    [ss EXCEPT ![i] = [@ EXCEPT !.status = IF @ \in {"binding", "listening"} THEN "closing" ELSE @]]

\* The close callback runs: the listener is closed.
closedServer(ss, i) ==
    [ss EXCEPT ![i] = [@ EXCEPT !.status = IF @ = "closing" THEN "closed" ELSE @]]

\* Variant: the close callback leaves the proxy handle set.
proxyServerAfterClose_kept(ps) == ps

\* this.proxyServer = null / this.staticServer = null in a close callback.
proxyServerAfterClose(ps) == 0
staticServerAfterClose(ss) == 0

\* ------------------------------------------------------------------ startServer
\* Variant: startServer without its guard.
alreadyStarted_missing(ps) == FALSE

\* The guard of startServer: a proxy handle is set.
alreadyStarted(ps) == ps # 0

\* Variant: startServer rejects the old promise and leaves it in the slot.
discardSlot_kept(rp) == rp

\* this.resultPromise = null after startServer has rejected an old promise.
discardSlot(rp) == 0

startServer ==
    /\ ~crashed
    /\ UNCHANGED conns /\ errorLog' = NoLog
    /\ calls < MaxCalls
    /\ IF alreadyStarted(proxyServer)
       THEN /\ startTasks' = Append(startTasks, [st |-> "threw", val |-> ErrAlreadyStarted,
                                                 bindFailed |-> "none"])
            /\ settled' = NoSettlement
            /\ UNCHANGED <<promises, resultPromise, proxyServer, servers, pending>>
       ELSE /\ promises' = settlePromises(promises, resultPromise, "rejected")
            /\ settled' = settlement(promises, resultPromise, "rejected", ErrJustStarted)
            /\ resultPromise' = discardSlot(resultPromise)
            /\ startTasks' = Append(startTasks, [st |-> "pending", val |-> NoValue,
                                                 bindFailed |-> "none"])
            /\ servers' = Append(servers, [role |-> "proxy", status |-> "binding"])
            /\ proxyServer' = Len(servers) + 1
            /\ pending' = pending \cup {Callback("proxyListen", Len(startTasks) + 1, Len(servers) + 1)}
    /\ UNCHANGED <<openIdStore, staticServer, stopTasks, exch, exchanges, startLink, crashed>>

\* The proxy listener is bound: the listen callback creates the web server and
\* asks it to listen.
proxyListening(cb) ==
    /\ ~crashed
    /\ UNCHANGED conns /\ errorLog' = NoLog
    /\ settled' = NoSettlement
    /\ cb \in pending /\ cb.kind = "proxyListen"
    /\ servers[cb.srv].status = "binding"
    /\ servers' = Append([servers EXCEPT ![cb.srv] = [@ EXCEPT !.status = "listening"]],
                         [role |-> "static", status |-> "binding"])
    /\ staticServer' = Len(servers) + 1
    /\ pending' = (pending \ {cb}) \cup {Callback("staticListen", cb.task, Len(servers) + 1)}
    /\ UNCHANGED <<openIdStore, proxyServer, resultPromise, promises, startTasks,
                   stopTasks, exch, exchanges, startLink, crashed>>

\* The proxy listener cannot bind: the engine reports the error to the onError
\* handler, which logs it; the listen callback never runs.
proxyListenError(cb) ==
    /\ ~crashed
    /\ UNCHANGED conns /\ errorLog' = onErrorLog(NoCtx, AdapterError("EADDRINUSE"))
    /\ settled' = NoSettlement
    /\ cb \in pending /\ cb.kind = "proxyListen"
    /\ servers[cb.srv].status = "binding"
    /\ servers' = [servers EXCEPT ![cb.srv] = [@ EXCEPT !.status = "failed"]]
    /\ pending' = pending \ {cb}
    /\ startTasks' = [startTasks EXCEPT ![cb.task] = [@ EXCEPT !.bindFailed = "proxy"]]
    /\ UNCHANGED <<openIdStore, proxyServer, staticServer, resultPromise, promises,
                   stopTasks, exch, exchanges, startLink, crashed>>

\* Variant: the store holds the entry of the newest login URL only.
generateInitialUrl_single(store) ==
    LET n == Cardinality(DOMAIN store) + 1 IN
    [store |-> [k \in {storeKey(StateNames[n])} |-> [code_verifier |-> VerifierNames[n]]],
     url |-> [state |-> StateNames[n], code_challenge |-> codeChallenge(VerifierNames[n]),
              code_challenge_method |-> "S256"]]

\* _generateInitialUrl: a fresh verifier and state, stored in openIdStore.
generateInitialUrl(store) ==
    LET n == Cardinality(DOMAIN store) + 1 IN
    [store |-> [k \in DOMAIN store \cup {storeKey(StateNames[n])} |->
                    IF k = storeKey(StateNames[n]) THEN [code_verifier |-> VerifierNames[n]]
                    ELSE store[k]],
     url |-> [state |-> StateNames[n], code_challenge |-> codeChallenge(VerifierNames[n]),
              code_challenge_method |-> "S256"]]

\* The web server is bound: publish the pages and resolve startServer's promise.
staticListening(cb) ==
    /\ ~crashed
    /\ UNCHANGED conns /\ errorLog' = NoLog
    /\ settled' = NoSettlement
    /\ cb \in pending /\ cb.kind = "staticListen"
    /\ servers[cb.srv].status = "binding"
    /\ servers' = [servers EXCEPT ![cb.srv] = [@ EXCEPT !.status = "listening"]]
    /\ pending' = pending \ {cb}
    /\ openIdStore' = generateInitialUrl(openIdStore).store
    /\ startLink' = generateInitialUrl(openIdStore).url
    /\ startTasks' = Settle(startTasks, cb.task, "resolved", TrueValue)
    /\ UNCHANGED <<proxyServer, staticServer, resultPromise, promises, stopTasks, exch, exchanges, crashed>>

\* The web server cannot bind: its 'error' handler closes the proxy listener.
staticListenError(cb) ==
    /\ ~crashed
    /\ UNCHANGED conns /\ errorLog' = NoLog
    /\ settled' = NoSettlement
    /\ cb \in pending /\ cb.kind = "staticListen"
    /\ servers[cb.srv].status = "binding"
    /\ startTasks' = [startTasks EXCEPT ![cb.task] = [@ EXCEPT !.bindFailed = "static"]]
    /\ IF proxyServer = 0
       THEN /\ crashed' = TRUE
            /\ servers' = [servers EXCEPT ![cb.srv] = [@ EXCEPT !.status = "failed"]]
            /\ pending' = pending \ {cb}
       ELSE /\ servers' = closeServer([servers EXCEPT ![cb.srv] = [@ EXCEPT !.status = "failed"]],
                                      proxyServer)
            /\ pending' = (pending \ {cb}) \cup {Callback("failProxyClosed", cb.task, proxyServer)}
            /\ UNCHANGED crashed
    /\ UNCHANGED <<openIdStore, proxyServer, staticServer, resultPromise, promises,
                   stopTasks, exch, exchanges, startLink>>

\* ------------------------------------------------------------------ stopServer
\* Variant: stopServer without its else branch.
stopIdle_unsettled == [st |-> "pending", val |-> NoValue]

\* stopServer with no proxy handle set: resolve() at once, with no value.
stopIdle == [st |-> "resolved", val |-> UndefinedValue]

stopServer ==
    /\ ~crashed
    /\ UNCHANGED conns /\ errorLog' = NoLog
    /\ calls < MaxCalls
    /\ promises' = settlePromises(promises, resultPromise, "rejected")
    /\ settled' = settlement(promises, resultPromise, "rejected", ErrStopped)
    /\ resultPromise' = 0
    /\ IF proxyServer # 0
       THEN /\ stopTasks' = Append(stopTasks, [st |-> "pending", val |-> NoValue,
                                               startsBefore |-> Len(startTasks),
                                               rejected |-> resultPromise])
            /\ servers' = closeServer(servers, proxyServer)
            /\ pending' = pending \cup {Callback("stopProxyClosed", Len(stopTasks) + 1, proxyServer)}
       ELSE /\ stopTasks' = Append(stopTasks, [st |-> stopIdle.st, val |-> stopIdle.val,
                                               startsBefore |-> Len(startTasks),
                                               rejected |-> resultPromise])
            /\ UNCHANGED <<servers, pending>>
    /\ UNCHANGED <<openIdStore, proxyServer, staticServer, startTasks, exch, exchanges, startLink, crashed>>

\* The callback of proxyServer.close() in stopServer or in the 'error' handler:
\* clear the proxy handle and close this.staticServer.
proxyClosed(cb) ==
    /\ ~crashed
    /\ UNCHANGED conns /\ errorLog' = NoLog
    /\ settled' = NoSettlement
    /\ cb \in pending /\ cb.kind \in {"stopProxyClosed", "failProxyClosed"}
    /\ proxyServer' = proxyServerAfterClose(proxyServer)
    /\ IF staticServer <= 0
       THEN /\ crashed' = TRUE
            /\ servers' = closedServer(servers, cb.srv)
            /\ pending' = pending \ {cb}
       ELSE /\ servers' = closeServer(closedServer(servers, cb.srv), staticServer)
            /\ pending' = (pending \ {cb}) \cup
                    {Callback(IF cb.kind = "stopProxyClosed" THEN "stopStaticClosed"
                              ELSE "failStaticClosed", cb.task, staticServer)}
            /\ UNCHANGED crashed
    /\ UNCHANGED <<openIdStore, staticServer, resultPromise, promises, startTasks,
                   stopTasks, exch, exchanges, startLink>>

\* The callback of staticServer.close(): clear the handle and settle the
\* promise of stopServer (resolve) or of startServer (reject with the error).
staticClosed(cb) ==
    /\ ~crashed
    /\ UNCHANGED conns /\ errorLog' = NoLog
    /\ settled' = NoSettlement
    /\ cb \in pending /\ cb.kind \in {"stopStaticClosed", "failStaticClosed"}
    /\ staticServer' = staticServerAfterClose(staticServer)
    /\ servers' = closedServer(servers, cb.srv)
    /\ pending' = pending \ {cb}
    /\ IF cb.kind = "stopStaticClosed"
       THEN /\ stopTasks' = Settle(stopTasks, cb.task, "resolved", TrueValue)
            /\ UNCHANGED startTasks
       ELSE /\ startTasks' = Settle(startTasks, cb.task, "rejected", ErrBind)
            /\ UNCHANGED stopTasks
    /\ UNCHANGED <<openIdStore, proxyServer, resultPromise, promises, exch, exchanges, startLink, crashed>>

\* ------------------------------------------------------------------ the environment
\* A redirect carries a state that was issued in a login URL, or a value made up
\* by the client; a made-up value never equals a random state generated later.
redirectPossible(loc) ==
    loc.params.state \in {StateNames[i] : i \in 1..Len(StateNames)}
        => loc.params.state \in DOMAIN openIdStore

\* The caller uses the lifecycle API sequentially: it calls startServer() or
\* stopServer() only when no promise of an earlier call is still pending.
lifecycleIdle ==
    /\ \A t \in 1..Len(startTasks) : startTasks[t].st # "pending"
    /\ \A k \in 1..Len(stopTasks) : stopTasks[k].st # "pending"

\* The hooks seen from the session: the connection itself is not followed.
adapterIdle == UNCHANGED conns /\ errorLog' = NoLog

Next ==
    \/ (lifecycleIdle /\ startServer)
    \/ (lifecycleIdle /\ stopServer)
    \/ waitForTokenResponse
    \/ \E cb \in pending : proxyListening(cb)
    \/ \E cb \in pending : proxyListenError(cb)
    \/ \E cb \in pending : staticListening(cb)
    \/ \E cb \in pending : staticListenError(cb)
    \/ \E cb \in pending : proxyClosed(cb)
    \/ \E cb \in pending : staticClosed(cb)
    \/ \E r \in Requests : redirectPossible(r.loc) /\ onResponseEnd(r.host, r.loc) /\ adapterIdle
    \/ \E x \in BagToSet(exch), ok \in BOOLEAN : oauthCallbackDone(x, ok) /\ adapterIdle

Spec == Init /\ [][Next]_vars

\* A caller that does not wait for the promises of startServer() and stopServer():
\* it may call either at any time.
NextConcurrent ==
    \/ startServer
    \/ stopServer
    \/ waitForTokenResponse
    \/ \E cb \in pending : proxyListening(cb)
    \/ \E cb \in pending : proxyListenError(cb)
    \/ \E cb \in pending : staticListening(cb)
    \/ \E cb \in pending : staticListenError(cb)
    \/ \E cb \in pending : proxyClosed(cb)
    \/ \E cb \in pending : staticClosed(cb)
    \/ \E r \in Requests : redirectPossible(r.loc) /\ onResponseEnd(r.host, r.loc) /\ adapterIdle
    \/ \E x \in BagToSet(exch), ok \in BOOLEAN : oauthCallbackDone(x, ok) /\ adapterIdle

SpecConcurrent == Init /\ [][NextConcurrent]_vars

\* The state in which the first startServer() has resolved: both listeners
\* accept connections and the first login URL is published.
InitStarted ==
    /\ openIdStore = generateInitialUrl([k \in {} |-> [code_verifier |-> Absent]]).store
    /\ startLink = generateInitialUrl([k \in {} |-> [code_verifier |-> Absent]]).url
    /\ proxyServer = 1
    /\ staticServer = 2
    /\ servers = <<[role |-> "proxy", status |-> "listening"],
                   [role |-> "static", status |-> "listening"]>>
    /\ startTasks = <<[st |-> "resolved", val |-> TrueValue, bindFailed |-> "none"]>>
    /\ stopTasks = << >>
    /\ pending = {}
    /\ resultPromise = 0
    /\ promises = << >>
    /\ settled = NoSettlement
    /\ exch = EmptyBag
    /\ exchanges = 0
    /\ crashed = FALSE
    /\ conns = EmptyBag
    /\ errorLog = NoLog

\* A started session whose proxied connections are followed hook by hook.
NextAdapter ==
    \/ waitForTokenResponse
    \/ \E req \in ClientRequests : onRequest(req)
    \/ \E c \in BagToSet(conns), loc \in ConnLocations : onResponse(c, loc)
    \/ \E c \in BagToSet(conns) : connResponseEnd(c)
    \/ \E c \in BagToSet(conns), ok \in BOOLEAN : connExchangeDone(c, ok)
    \/ \E c \in BagToSet(conns) : upstreamClosed(c)
    \/ \E ctx \in {NoCtx} \cup {Ctx(c) : c \in BagToSet(conns)}, code \in ErrorCodes :
          onError(ctx, AdapterError(code))

SpecAdapter == InitStarted /\ [][NextAdapter]_vars

\* ------------------------------------------------------------------ properties
\* The step is the response-end hook run for a terminal redirect from a vendor host.
terminalRedirectStep(host, loc) ==
    hostIncludesDaikin(host) /\ isTerminalRedirect(loc) /\ onResponseEnd(host, loc)

\* The state has an entry of its own in the pending-state store.
knownState(s) == storeKey(s) \in DOMAIN openIdStore

pendingPromises == {p \in 1..Len(promises) : promises[p] = "pending"}

\* C1 (as claimed): a second waitForTokenResponse() rejects the first promise
\* before making the second, so never are two promises of waitForTokenResponse()
\* unsettled at the same time.
C1_AsClaimed == Cardinality(pendingPromises) <= 1

\* C2: stopServer() called while a wait is outstanding rejects that wait with
\* 'Proxy Server stopped.'; once the promise of stopServer() has resolved and no
\* startServer() was called since, the proxy handle is null, and a startServer()
\* called then is accepted instead of throwing 'already started'.
C2_StopRejectsWaitThenStartAccepted ==
    [][ /\ (Len(stopTasks') > Len(stopTasks) /\ resultPromise # 0)
            => /\ settled' = [p |-> resultPromise, st |-> "rejected",
                              val |-> [kind |-> "error", msg |-> "Proxy Server stopped."]]
               /\ promises'[resultPromise] = "rejected"
               /\ resultPromise' = 0
        /\ \A k \in 1..Len(stopTasks') :
              (stopTasks'[k].st = "resolved" /\ Len(startTasks') = stopTasks'[k].startsBefore)
                  => proxyServer' = 0
        /\ (/\ Len(startTasks') > Len(startTasks)
            /\ \E k \in 1..Len(stopTasks) :
                  stopTasks[k].st = "resolved" /\ stopTasks[k].startsBefore = Len(startTasks))
            => startTasks'[Len(startTasks')].st = "pending"
      ]_vars

\* C2 witness: a stopServer() that rejected a wait and closed both listeners has
\* resolved, and the startServer() after it was accepted.
C2_Witness ==
    \E k \in 1..Len(stopTasks) :
        /\ stopTasks[k].rejected # 0 /\ promises[stopTasks[k].rejected] = "rejected"
        /\ stopTasks[k].st = "resolved" /\ stopTasks[k].val = TrueValue
        /\ Len(startTasks) > stopTasks[k].startsBefore
        /\ startTasks[stopTasks[k].startsBefore + 1].st # "threw"

\* The step handles a terminal redirect with a known state and neither code nor
\* error while a wait is outstanding.
unrecognizedRedirectStep(host, loc) ==
    /\ resultPromise # 0
    /\ knownState(loc.params.state)
    /\ ~Truthy(loc.params.code) /\ ~Truthy(loc.params.error)
    /\ terminalRedirectStep(host, loc)

C4_AsClaimed ==
    [][\A x \in BagToSet(exch), ok \in BOOLEAN :
          (/\ x.startedUnder # 0 /\ resultPromise > x.startedUnder
           /\ knownState(x.state)
           /\ oauthCallbackDone(x, ok))
              => /\ settled' = NoSettlement
                 /\ promises' = promises
                 /\ resultPromise' = resultPromise]_vars

\* C5: first delivery wins. A promise that is settled never changes again; a
\* promise is settled only while it is in the slot, and the slot is cleared in the
\* same step; a step that finds the slot empty settles nothing (the delivery is
\* dropped, no exception).
C5_FirstDeliveryWins ==
    [][ /\ \A p \in 1..Len(promises) :
              /\ promises[p] # "pending" => promises'[p] = promises[p]
              /\ (promises[p] = "pending" /\ promises'[p] # "pending")
                    => (p = resultPromise /\ resultPromise' = 0 /\ settled'.p = p)
        /\ (resultPromise = 0 /\ Len(promises') = Len(promises))
              => (promises' = promises /\ settled' = NoSettlement)
        /\ \A x \in BagToSet(exch), ok \in BOOLEAN :
              oauthCallbackDone(x, ok) => (crashed' = crashed /\ resultPromise' = 0)
      ]_vars

\* C5 witness: of two exchanges in flight under one wait, the first has resolved
\* the wait with its token set and cleared the slot; the other is still to answer.
C5_Witness ==
    /\ settled.st = "resolved" /\ settled.val.kind = "tokenSet"
    /\ resultPromise = 0
    /\ \E x \in BagToSet(exch) : x.startedUnder = settled.p

\* C6: startServer() called while the proxy handle is set throws 'already
\* started' and changes nothing: listeners, handles, registered callbacks, the
\* pending-state store, the slot and the promises stay as they were.
C6_StartWhileRunningThrows ==
    [][(Len(startTasks') > Len(startTasks) /\ proxyServer # 0)
          => /\ startTasks'[Len(startTasks')].st = "threw"
             /\ startTasks'[Len(startTasks')].val.msg =
                    "Proxy Server already started. Please stop before starting again."
             /\ settled' = NoSettlement
             /\ UNCHANGED <<openIdStore, proxyServer, staticServer, resultPromise, promises,
                            servers, pending, stopTasks, exch, exchanges, startLink,
                            crashed>>]_vars

\* C6 witness: the last startServer() threw while a session was running with a
\* wait outstanding.
C6_Witness ==
    /\ Len(startTasks) > 1 /\ startTasks[Len(startTasks)].st = "threw"
    /\ resultPromise # 0 /\ promises[resultPromise] = "pending"
    /\ proxyServer # 0 /\ servers[proxyServer].status = "listening"
    /\ DOMAIN openIdStore # {}

\* Some callback of startServer() call t is still to run.
startInProgress(t) ==
    \E cb \in pending : cb.task = t /\ cb.kind \in {"proxyListen", "staticListen",
                                                    "failProxyClosed", "failStaticClosed"}

\* C7 (as claimed): when a listener of a startServer() call failed to bind and
\* the handling of the failure has finished, the promise of that call is rejected
\* with the bind failure, no listener is left open, and (if no other startServer()
\* was called since) the proxy handle is null, so that the next call is accepted.
C7_AsClaimed ==
    \A t \in 1..Len(startTasks) :
        (startTasks[t].bindFailed # "none" /\ ~startInProgress(t))
            => /\ startTasks[t].st = "rejected" /\ startTasks[t].val = ErrBind
               /\ (t = Len(startTasks)
                     => /\ proxyServer = 0
                        /\ \A i \in 1..Len(servers) :
                              servers[i].status \notin {"binding", "listening"})

\* C8 (as claimed): a terminal redirect whose state has no entry in the store
\* rejects the outstanding wait with the unknown-state error, whatever else the
\* redirect carries.
C8_AsClaimed ==
    [][\A r \in Requests :
          (resultPromise # 0 /\ ~knownState(r.loc.params.state) /\ terminalRedirectStep(r.host, r.loc))
              => /\ settled' = [p |-> resultPromise, st |-> "rejected",
                                val |-> ErrUnknownState(r.loc.params.state)]
                 /\ resultPromise' = 0
                 /\ exch' = exch]_vars

\* C9: a terminal redirect with a known state, no code, an error e and a
\* description d rejects the outstanding wait with the message e + ': ' + d, and
\* makes no exchange call.
C9_ErrorRedirectRejectsWithPair ==
    [][\A r \in Requests :
          (/\ resultPromise # 0
           /\ knownState(r.loc.params.state)
           /\ ~Truthy(r.loc.params.code) /\ Truthy(r.loc.params.error)
           /\ r.loc.params.error_description # Absent
           /\ terminalRedirectStep(r.host, r.loc))
              => /\ settled' = [p |-> resultPromise, st |-> "rejected",
                                val |-> [kind |-> "error",
                                         msg |-> r.loc.params.error \o ": "
                                                 \o r.loc.params.error_description]]
                 /\ promises'[resultPromise] = "rejected"
                 /\ exch' = exch]_vars

\* C9 witness: a wait has just been rejected with the provider's error and description.
C9_Witness ==
    /\ settled.st = "rejected" /\ settled.p # 0
    /\ settled.val.msg = "access_denied: user cancelled"

\* C10: a terminal redirect with a code and a known state s calls the exchange
\* with the verifier stored under s, which is the verifier of no other state and,
\* when s is the state of the published login URL, the one whose challenge that
\* URL carries; when the call returns a token set and a wait is outstanding, the
\* wait is resolved with the token set issued for that code and verifier.
C10_ExchangeUsesStoredVerifier ==
    [][ /\ \A r \in Requests :
              (/\ knownState(r.loc.params.state)
               /\ Truthy(r.loc.params.code)
               /\ terminalRedirectStep(r.host, r.loc))
                  => LET s == r.loc.params.state
                         v == openIdStore[s].code_verifier
                     IN /\ exch' = exch (+) SetToBag({[state |-> s, code |-> r.loc.params.code,
                                                       code_verifier |-> v,
                                                       startedUnder |-> resultPromise]})
                        /\ \A s2 \in DOMAIN openIdStore \ {s} : openIdStore[s2].code_verifier # v
                        /\ s = startLink.state => codeChallenge(v) = startLink.code_challenge
        /\ \A x \in BagToSet(exch) :
              (resultPromise # 0 /\ knownState(x.state) /\ oauthCallbackDone(x, TRUE))
                  => /\ settled' = [p |-> resultPromise, st |-> "resolved",
                                    val |-> [kind |-> "tokenSet",
                                             msg |-> "tokens(" \o x.code \o ","
                                                     \o openIdStore[x.state].code_verifier \o ")"]]
                     /\ promises'[resultPromise] = "resolved"
      ]_vars

\* C10 witness: with two states in the store, a wait has just been resolved with
\* the token set issued for the verifier of the first.
C10_Witness ==
    /\ Cardinality(DOMAIN openIdStore) = 2
    /\ settled.st = "resolved" /\ settled.val.kind = "tokenSet"
    /\ settled.val.msg = "tokens(c1,v1)"

\* stopServer() call k has resolved and startServer() was not called since.
stopped(k) ==
    stopTasks[k].st = "resolved" /\ stopTasks[k].startsBefore = Len(startTasks)

\* C11 (as claimed): once stopServer() has resolved (and until the next
\* startServer()), no interception callback fires: no response-end hook starts,
\* and an exchange that was in flight when stopServer() was called (it began under
\* the wait that stopServer() rejected) does not resume its hook and settle a
\* promise of waitForTokenResponse().
C11_AsClaimed ==
    [][\A k \in 1..Len(stopTasks) :
          stopped(k) =>
              /\ \A x \in BagToSet(exch), ok \in BOOLEAN :
                    (/\ x.startedUnder # 0 /\ x.startedUnder = stopTasks[k].rejected
                     /\ oauthCallbackDone(x, ok))
                        => (settled' = NoSettlement /\ promises' = promises)
              /\ \A r \in Requests : ~terminalRedirectStep(r.host, r.loc)]_vars

\* C12: stopServer() called while no proxy handle is set resolves at once, with no
\* error, and leaves the handles, the listeners, the registered callbacks and the
\* pending-state store as they were; so does every further stopServer() after it.
C12_StopIdempotent ==
    [][(Len(stopTasks') > Len(stopTasks) /\ proxyServer = 0)
          => /\ stopTasks'[Len(stopTasks')].st = "resolved"
             /\ stopTasks'[Len(stopTasks')].val.kind # "error"
             /\ UNCHANGED <<proxyServer, staticServer, servers, pending, openIdStore,
                            startLink, startTasks, crashed>>]_vars

\* C12 witness: a session was stopped, and stopServer() was then called twice more
\* in a row: both calls resolved at once and the session is still not running.
C12_Witness ==
    \E k \in 1..Len(stopTasks) :
        /\ k + 2 <= Len(stopTasks)
        /\ stopTasks[k].st = "resolved" /\ stopTasks[k].val = TrueValue
        /\ \A j \in {k + 1, k + 2} :
              /\ stopTasks[j].st = "resolved" /\ stopTasks[j].val = UndefinedValue
              /\ stopTasks[j].startsBefore = stopTasks[k].startsBefore
        /\ proxyServer = 0 /\ staticServer = 0
        /\ DOMAIN openIdStore # {}

\* C13 (as claimed): the response-end hook of a terminal redirect (of a known
\* state) calls its completion callback, which releases the response to the
\* client, in the turn in which it runs: no response is withheld until the
\* exchange has answered.
C13_AsClaimed ==
    [][\A r \in Requests :
          (knownState(r.loc.params.state) /\ terminalRedirectStep(r.host, r.loc))
              => withheldResponses' = withheldResponses]_vars

\* The step is a startServer() call that passed the already-started check.
startAccepted ==
    Len(startTasks') > Len(startTasks) /\ startTasks'[Len(startTasks')].st # "threw"

\* C19: a startServer() that is accepted while a wait is outstanding rejects that
\* wait with 'Proxy Server just started. Discard old process.'; after every
\* accepted startServer() the slot is empty, and only a waitForTokenResponse()
\* call fills an empty slot.
C19_StartDiscardsWait ==
    [][ /\ startAccepted
            => /\ resultPromise' = 0
               /\ resultPromise # 0
                    => /\ settled' = [p |-> resultPromise, st |-> "rejected",
                                      val |-> [kind |-> "error",
                                               msg |-> "Proxy Server just started. Discard old process."]]
                       /\ promises'[resultPromise] = "rejected"
        /\ (resultPromise = 0 /\ resultPromise' # 0)
            => /\ Len(promises') = Len(promises) + 1
               /\ resultPromise' = Len(promises')
      ]_vars

\* C19 witness: a startServer() has just been accepted and has rejected the wait
\* that was outstanding.
C19_Witness ==
    /\ settled.st = "rejected" /\ settled.val = ErrJustStarted
    /\ promises[settled.p] = "rejected"
    /\ resultPromise = 0
    /\ startTasks[Len(startTasks)].st = "pending"

\* C20: the pending-state store only grows. No step removes an entry or changes
\* the verifier of one; a step adds an entry exactly when a startServer() call
\* resolves, and then it adds one; and a terminal redirect for a state that has
\* an entry passes the state check: with a code it starts an exchange, and it
\* never rejects the wait with the unknown-state error.
C20_StoreOnlyGrows ==
    [][ /\ \A k \in DOMAIN openIdStore :
              k \in DOMAIN openIdStore' /\ openIdStore'[k] = openIdStore[k]
        /\ Cardinality(DOMAIN openIdStore') =
              Cardinality(DOMAIN openIdStore)
                + Cardinality({t \in 1..Len(startTasks) :
                                  startTasks[t].st # "resolved" /\ startTasks'[t].st = "resolved"})
        /\ \A r \in Requests :
              (knownState(r.loc.params.state) /\ terminalRedirectStep(r.host, r.loc))
                  => /\ settled'.val # ErrUnknownState(r.loc.params.state)
                     /\ Truthy(r.loc.params.code) => withheldResponses' = withheldResponses + 1
      ]_vars

\* C20 witness: a session was started, stopped and started again; the store holds
\* the states of both, and a redirect for the state of the first session, replayed
\* under the wait made in the second, has started an exchange.
C20_Witness ==
    /\ Len(startTasks) = 2 /\ \A t \in 1..2 : startTasks[t].st = "resolved"
    /\ \E k \in 1..Len(stopTasks) : stopTasks[k].st = "resolved" /\ stopTasks[k].val = TrueValue
    /\ DOMAIN openIdStore = {"s1", "s2"}
    /\ resultPromise # 0 /\ promises[resultPromise] = "pending"
    /\ \E x \in BagToSet(exch) :
          x.state = "s1" /\ x.code_verifier = "v1" /\ x.startedUnder = resultPromise

\* Some close callback of stopServer() call k is still to run.
stopInProgress(k) ==
    \E cb \in pending : cb.task = k /\ cb.kind \in {"stopProxyClosed", "stopStaticClosed"}

\* C17 (as claimed): whenever stopServer() is called, also during a startServer()
\* or during another stopServer(), no close callback finds a listener handle
\* missing (no callback throws), and a stopServer() whose promise is unsettled
\* always has a close callback still to run that leads to its resolve().
C17_AsClaimed ==
    /\ ~crashed
    /\ \A k \in 1..Len(stopTasks) : stopTasks[k].st = "pending" => stopInProgress(k)

\* C18 (as claimed): a startServer() that passes the already-started check finds
\* every listener made before it fully closed, and the close callback of a web
\* server clears this.staticServer only while it holds that very server.
C18_AsClaimed ==
    [][ /\ startAccepted
            => \A i \in 1..Len(servers) : servers[i].status \in {"closed", "failed"}
        /\ \A cb \in pending :
              (cb.kind \in {"stopStaticClosed", "failStaticClosed"} /\ staticClosed(cb))
                  => (staticServer = cb.srv \/ staticServer' = staticServer)
      ]_vars

\* C14: the request hook lets every request go on to the origin, and registers
\* the response-end hook exactly for a Host that contains 'daikin'; when a
\* response ends, _retrieveTokens is reached (an exchange starts, or a promise of
\* waitForTokenResponse() is settled, or the slot changes) only if the Host is a
\* vendor host and the Location header starts with 'daikinunified://'; every
\* other response is released at once and leaves the rendezvous alone.
C14_OnlyVendorTerminalRedirects ==
    [][ /\ \A req \in ClientRequests :
              onRequest(req)
                  => \E c \in BagToSet(conns') :
                        /\ CopiesIn(c, conns') = CopiesIn(c, conns) + 1
                        /\ c.host = req.host /\ c.url = req.url
                        /\ c.phase = "toServer"
                        /\ c.onResponseEnd <=> req.host = "cdc.daikin.eu"
        /\ \A c \in BagToSet(conns) :
              connResponseEnd(c)
                  => \/ c.host = "cdc.daikin.eu" /\ c.loc.scheme = "daikinunified://"
                     \/ /\ exch' = exch /\ exchanges' = exchanges
                        /\ promises' = promises /\ resultPromise' = resultPromise
                        /\ settled' = NoSettlement
                        /\ conns' = replaceConn(c, [c EXCEPT !.phase = "ended"])
      ]_vars

\* C14 witness: while a wait is outstanding, a response with the terminal
\* redirect has ended on a connection to another host, and nothing was delivered.
C14_Witness ==
    /\ resultPromise # 0 /\ promises[resultPromise] = "pending"
    /\ exch = EmptyBag
    /\ \E c \in BagToSet(conns) :
          /\ c.host = "example.org" /\ c.loc.scheme = "daikinunified://"
          /\ c.loc.params.code = "c1" /\ c.phase = "ended"

\* C15 (as claimed): on every connection, whenever the upstream socket closes,
\* also before any response was received, the client socket is destroyed.
C15_AsClaimed ==
    [][\A c \in BagToSet(conns) :
          upstreamClosed(c)
              => conns' = replaceConn(c, [c EXCEPT !.upstream = "closed",
                                                   !.client = "destroyed"])]_vars

\* C15 (amended): on every connection, whatever its host, once the response
\* headers have been received a close of the upstream socket destroys the client
\* socket; a close before any response was received leaves the client socket as
\* it is.
C15_CloseRuleFromResponseOn ==
    [][\A c \in BagToSet(conns) :
          upstreamClosed(c)
              => conns' = replaceConn(c, [c EXCEPT !.upstream = "closed",
                                                   !.client = IF c.phase = "toServer" THEN c.client
                                                              ELSE "destroyed"])]_vars

\* C15 witness: on a connection to a host that is not a vendor host, the upstream
\* socket closed after the response headers, and the client socket was destroyed.
C15_Witness ==
    \E c \in BagToSet(conns) :
        /\ c.host = "example.org"
        /\ c.phase = "response" /\ c.upstream = "closed" /\ c.client = "destroyed"

\* C16: an error with code ECONNRESET or ERR_SSL_UNSUPPORTED_PROTOCOL gives the
\* logger nothing; every other error gives it a line that names the URL of the
\* failing request (empty when the error has no request); and no error changes
\* the handles, the listeners, the slot, the promises, the store or the
\* connections, or makes a callback throw.
C16_ErrorLogging ==
    [][\A ctx \in {NoCtx} \cup {Ctx(c) : c \in BagToSet(conns)}, code \in ErrorCodes :
          (/\ conns' = conns /\ promises' = promises
           /\ errorLog' = onErrorLog(ctx, AdapterError(code))
           /\ onError(ctx, AdapterError(code)))
              => /\ code \in {"ECONNRESET", "ERR_SSL_UNSUPPORTED_PROTOCOL"} => errorLog' = << >>
                 /\ code \notin {"ECONNRESET", "ERR_SSL_UNSUPPORTED_PROTOCOL"}
                      => /\ Len(errorLog') = 2
                         /\ errorLog'[1] = "Daikin-Cloud: SSL-Proxy ERROR for "
                                \o (IF ctx.clientToProxyRequest THEN ctx.url ELSE "")
                                \o " : Error: proxy failure"
                 /\ UNCHANGED <<openIdStore, proxyServer, staticServer, resultPromise, promises,
                                servers, pending, startTasks, stopTasks, exch, exchanges,
                                startLink, crashed, conns>>]_vars

\* C16 witness: while a wait is outstanding, an error of the request for
\* /v1/login that is not ignored has just been logged with that URL.
C16_Witness ==
    /\ Len(errorLog) = 2
    /\ errorLog[1] = "Daikin-Cloud: SSL-Proxy ERROR for /v1/login : Error: proxy failure"
    /\ errorLog[2] = "ETIMEDOUT: Error: proxy failure at proxy.js"
    /\ resultPromise # 0 /\ promises[resultPromise] = "pending"
    /\ proxyServer # 0 /\ servers[proxyServer].status = "listening"
====
